---- MODULE Spec2Model ----
(***************************************************************************)
(* Production-tracking engine of deco-robi-firebase (src/src/types.ts,     *)
(* the App component): one order document in the store, the client's      *)
(* local mirror of it, the client's local timer, the stop / advance /     *)
(* admin modals and the store writes in flight.                            *)
(*                                                                         *)
(* Time is the Date.now() clock in milliseconds; it advances in steps of  *)
(* TickMs.  A handler runs up to its await (the store write) in one step; *)
(* the write and the code after the await run in a second step            *)
(* (WriteDone).                                                            *)
(***************************************************************************)
EXTENDS Integers, Sequences, FiniteSets, TLC

\* ------------------------------------------------------------ bounds
MaxTicks == 1
MaxStops == 2
MaxNotes == 1
MaxAdminStops == 1
MaxScenarioStops == 4
MaxOperatorWrites == 1
MaxFnSteps == 3
MaxFnPieces == 2
MaxTimerTicks == 4
MaxTimerStops == 1
MaxForceNotes == 2
MaxInFlight == 2

\* ------------------------------------------------------- constants
TickMs == 500
Null == -1
ServerTs == -2
NullS == "null"
SelectMax == 10

Statuses == {"da_iniziare", "in_esecuzione", "pausato", "eseguito",
             "in_essiccazione", "in_imballaggio", "pronti_consegna"}
\* mutant: the select has no IN ESSICCAZIONE option
AdvancePhases_noDrying == {"in_imballaggio", "pronti_consegna"}

\* the options of the advance modal's phase select
AdvancePhases == {"in_essiccazione", "in_imballaggio", "pronti_consegna"}

\* ------------------------------------------------------- pure helpers
Max2(a, b) == IF a >= b THEN a ELSE b
Min2(a, b) == IF a <= b THEN a ELSE b

\* Number(v || 0), Number(v ?? 0): null / undefined read as 0
Num0(v) == IF v = Null THEN 0 ELSE v

\* Math.round(ms / 1000) for ms >= 0 (half rounds up)
RoundSec(ms) == (ms + 500) \div 1000

\* (map as any)?.[k] ?? 0 on a map kept as a function over its own keys
Get0(map, k) == IF k \in DOMAIN map THEN map[k] ELSE 0

\* { ...map, [k]: v }
Put(map, k, v) == [x \in (DOMAIN map) \cup {k} |-> IF x = k THEN v ELSE map[x]]

EmptyMap == [x \in {} |-> 0]

RECURSIVE MinOver(_, _)
MinOver(f, S) ==
  IF S = {} THEN 0
  ELSE LET x == CHOOSE y \in S : TRUE
           r == S \ {x}
       IN IF r = {} THEN f[x] ELSE Min2(f[x], MinOver(f, r))

\* mutant: the minimum runs over the recorded steps only
computeFullyDone_recordedOnly(stepsCount, stepsProgress, defaultZero) ==
  IF stepsCount <= 0 THEN 0
  ELSE LET rec == (1..stepsCount) \cap (DOMAIN stepsProgress)
       IN Max2(defaultZero, IF rec = {} THEN 0 ELSE MinOver(stepsProgress, rec))

\* mutant: without steps the pieces of the first step count as finished
computeFullyDone_untracked(stepsCount, stepsProgress, defaultZero) ==
  IF stepsCount <= 0 THEN Get0(stepsProgress, 1)
  ELSE LET vals == [i \in 1..stepsCount |-> Get0(stepsProgress, i)]
       IN Max2(defaultZero, MinOver(vals, 1..stepsCount))

\* computeFullyDone(stepsCount, stepsProgress, defaultZero)
computeFullyDone(stepsCount, stepsProgress, defaultZero) ==
  IF stepsCount <= 0 THEN 0
  ELSE LET vals == [i \in 1..stepsCount |-> Get0(stepsProgress, i)]
       IN Max2(defaultZero, MinOver(vals, 1..stepsCount))

RECURSIVE SumQty(_)
SumQty(bs) == IF bs = <<>> THEN 0 ELSE Head(bs).qty + SumQty(Tail(bs))

\* ------------------------------------------------------------ state
VARIABLES
  doc,            \* the order document in the store (order_items/<id>)
  orders,         \* the client's mirror of that document (useState orders)
  timers,         \* the client's timers[row.id] (useState timers)
  operators,      \* the client's operator names (useState operators)
  now,            \* Date.now(), ms
  idSeq,          \* number of ids genId() has handed out
  stopOpen,       \* the stop modal is open
  stopTarget,     \* the row the stop modal was opened on
  stopOperator,   \* the operator chosen in the stop modal
  advanceOpen,    \* the advance modal is open
  advanceBatchId, \* the batch the advance modal was opened on
  adminOpen,      \* the admin modal is open
  pending,        \* store writes issued and not yet settled, oldest first
  alerted,        \* the message the last handler showed with alert(), "" when none
  peer            \* a second client on the same document: its mirror and stop modal

stopVars == <<stopOpen, stopTarget, stopOperator>>
advanceVars == <<advanceOpen, advanceBatchId>>
vars == <<doc, orders, timers, operators, now, idSeq, stopVars, advanceVars,
          adminOpen, pending, alerted, peer>>

\* the second client does nothing in this step
PeerIdle == UNCHANGED peer

\* timers[row.id] when the map has no entry for the order
NoTimer == [present |-> FALSE, running |-> FALSE, startedAt |-> Null, elapsed |-> 0]

\* the row handleImportCSV creates for a new order
NewOrder(req, steps) ==
  [ steps_count |-> steps, qty_requested |-> req, qty_done |-> 0,
    steps_progress |-> EmptyMap, steps_time |-> EmptyMap,
    packed_qty |-> 0, packed_boxes |-> Null, packed_size |-> NullS,
    packed_weight |-> Null, packed_notes |-> NullS,
    status |-> "da_iniziare", hidden |-> FALSE,
    notes_log |-> <<>>, ops_log |-> <<>>,
    elapsed_sec |-> 0, total_elapsed_sec |-> 0, timer_start |-> Null,
    batches |-> <<>>,
    last_operator |-> NullS, last_notes |-> NullS, last_step |-> Null,
    last_pieces |-> Null, last_duration_sec |-> Null, last_done_at |-> Null,
    status_changed_at |-> Null, forced_completed |-> FALSE,
    deleted_permanently |-> FALSE, deleted_at |-> Null ]

TsFields == {"last_done_at", "status_changed_at", "deleted_at"}
MapFields == {"steps_progress", "steps_time"}

\* mutant: a merged map adds the written value to the stored one
MapMerge_add(a, b) ==
  [x \in (DOMAIN a) \cup (DOMAIN b) |-> IF x \in DOMAIN b THEN Get0(a, x) + b[x] ELSE a[x]]

\* { ...a, ...b } on a nested map
MapMerge(a, b) == [x \in (DOMAIN a) \cup (DOMAIN b) |-> IF x \in DOMAIN b THEN b[x] ELSE a[x]]

\* mutant: an empty map in a merged write leaves the stored map as it is
StoreApply_mergeEmpty(d, patch, merge, at) ==
  [f \in DOMAIN d |->
     IF f \notin DOMAIN patch THEN d[f]
     ELSE IF f \in TsFields THEN (IF patch[f] = ServerTs THEN at ELSE patch[f])
     ELSE IF f \in MapFields /\ merge THEN MapMerge(d[f], patch[f])
     ELSE patch[f]]

\* The store applying a write: updateDoc replaces each named field; setDoc
\* with merge:true replaces scalars and arrays, merges a non-empty nested
\* map key by key and replaces a field by an empty map; serverTimestamp()
\* becomes the time of the write.
StoreApply(d, patch, merge, at) ==
  [f \in DOMAIN d |->
     IF f \notin DOMAIN patch THEN d[f]
     ELSE IF f \in TsFields THEN (IF patch[f] = ServerTs THEN at ELSE patch[f])
     ELSE IF f \in MapFields /\ merge /\ DOMAIN patch[f] # {} THEN MapMerge(d[f], patch[f])
     ELSE patch[f]]

\* { ...o, ...patch } in a setOrders updater
Spread(o, patch) == [f \in DOMAIN o |-> IF f \in DOMAIN patch THEN patch[f] ELSE o[f]]

\* baseElapsedOf(row)
baseElapsedOf(row) == Num0(IF row.total_elapsed_sec # Null THEN row.total_elapsed_sec ELSE row.elapsed_sec)

\* visibleOrders: the rows of the left table
visibleOrders(o) ==
  /\ ~o.hidden
  /\ ~(Num0(o.qty_requested) > 0 /\ Num0(o.qty_done) >= Num0(o.qty_requested))
  /\ o.status \in {"da_iniziare", "in_esecuzione", "pausato",
                   "in_essiccazione", "in_imballaggio", "pronti_consegna"}

\* Modal: an open modal covers the page, so the page's buttons take no click
NoModal == ~stopOpen /\ ~advanceOpen /\ ~adminOpen

\* ------------------------------------------------------------ clock
StartMs == 2 * TickMs

\* the clock has ticked fewer than max times
TicksBelow(max) == now < StartMs + max * TickMs

Tick ==
  /\ now' = now + TickMs
  /\ alerted' = ""
  /\ UNCHANGED <<doc, orders, timers, operators, idSeq, stopVars, advanceVars, adminOpen, pending>>

\* a store write in flight: what the handler passed to updateDoc / setDoc
\* and the locals its code after the await still needs
Write(op, merge, patch, k) == [op |-> op, merge |-> merge, patch |-> patch, k |-> k]

NoLocals == [none |-> TRUE]

\* ------------------------------------------------------------ timer
\* mutant: a start also writes the stored seconds back to 0
onStart_zero ==
  /\ NoModal /\ visibleOrders(orders)
  /\ orders.status = "da_iniziare"
  /\ timers' = [present |-> TRUE, running |-> TRUE, startedAt |-> now,
                elapsed |-> baseElapsedOf(orders)]
  /\ pending' = Append(pending,
        Write("onStart", FALSE,
              [status |-> "in_esecuzione", timer_start |-> now, elapsed_sec |-> 0], NoLocals))
  /\ alerted' = ""
  /\ UNCHANGED <<doc, orders, operators, now, idSeq, stopVars, advanceVars, adminOpen>>

onStart ==
  /\ NoModal /\ visibleOrders(orders)
  /\ orders.status = "da_iniziare"
  /\ timers' = [present |-> TRUE, running |-> TRUE, startedAt |-> now,
                elapsed |-> baseElapsedOf(orders)]
  /\ pending' = Append(pending,
        Write("onStart", FALSE, [status |-> "in_esecuzione", timer_start |-> now], NoLocals))
  /\ alerted' = ""
  /\ UNCHANGED <<doc, orders, operators, now, idSeq, stopVars, advanceVars, adminOpen>>

onPause ==
  /\ NoModal /\ visibleOrders(orders)
  /\ orders.status = "in_esecuzione"
  /\ LET t == IF timers.present THEN timers
              ELSE [present |-> FALSE, running |-> FALSE, startedAt |-> Null,
                    elapsed |-> baseElapsedOf(orders)]
         extra == IF t.startedAt # Null THEN RoundSec(now - t.startedAt) ELSE 0
         elapsed == t.elapsed + extra
     IN /\ timers' = [present |-> TRUE, running |-> FALSE, startedAt |-> Null, elapsed |-> elapsed]
        /\ pending' = Append(pending,
              Write("onPause", FALSE,
                    [status |-> "pausato", elapsed_sec |-> elapsed,
                     total_elapsed_sec |-> elapsed, timer_start |-> Null], NoLocals))
  /\ alerted' = ""
  /\ UNCHANGED <<doc, orders, operators, now, idSeq, stopVars, advanceVars, adminOpen>>

\* mutant: resume forgets the seconds counted before the pause
onResume_restart ==
  /\ NoModal /\ visibleOrders(orders)
  /\ orders.status = "pausato"
  /\ timers' = [present |-> TRUE, running |-> TRUE, startedAt |-> now, elapsed |-> 0]
  /\ pending' = Append(pending,
        Write("onResume", FALSE, [status |-> "in_esecuzione", timer_start |-> now], NoLocals))
  /\ alerted' = ""
  /\ UNCHANGED <<doc, orders, operators, now, idSeq, stopVars, advanceVars, adminOpen>>

onResume ==
  /\ NoModal /\ visibleOrders(orders)
  /\ orders.status = "pausato"
  /\ LET prevElapsed == IF timers.present THEN timers.elapsed ELSE baseElapsedOf(orders)
     IN timers' = [present |-> TRUE, running |-> TRUE, startedAt |-> now, elapsed |-> prevElapsed]
  /\ pending' = Append(pending,
        Write("onResume", FALSE, [status |-> "in_esecuzione", timer_start |-> now], NoLocals))
  /\ alerted' = ""
  /\ UNCHANGED <<doc, orders, operators, now, idSeq, stopVars, advanceVars, adminOpen>>

\* ------------------------------------------------------------- stop
\* The stop modal's step, pieces and notes fields are inputs of confirmStop
\* (what the user has entered when Registra is clicked); the chosen operator
\* is state, because the options of its select come from operators, which
\* can change while the modal is open.
openStop ==
  /\ NoModal /\ visibleOrders(orders)
  /\ stopTarget' = orders
  /\ stopOperator' = ""
  /\ stopOpen' = TRUE
  /\ alerted' = ""
  /\ UNCHANGED <<doc, orders, timers, operators, now, idSeq, advanceVars, adminOpen, pending>>

\* the options of the stop modal's step select
StepOptions(row) ==
  1 .. Max2(1, Min2(SelectMax, IF row.steps_count = 0 THEN SelectMax ELSE row.steps_count))

\* the options of the stop modal's operator select
OperatorOptions == {""} \cup operators

setStopOperator(v) ==
  /\ stopOpen /\ v \in OperatorOptions
  /\ stopOperator' = v
  /\ alerted' = ""
  /\ UNCHANGED <<doc, orders, timers, operators, now, idSeq, stopOpen, stopTarget,
                 advanceVars, adminOpen, pending>>

\* stopTarget and stopOperator are read only while the modal is open and
\* openStop overwrites both, so the model drops them when the modal closes.
StopFormCleared ==
  /\ stopTarget' = Null
  /\ stopOperator' = ""

closeStop ==
  /\ stopOpen
  /\ stopOpen' = FALSE
  /\ StopFormCleared
  /\ alerted' = ""
  /\ UNCHANGED <<doc, orders, timers, operators, now, idSeq, advanceVars, adminOpen, pending>>

\* mutant: the notes are not trimmed
Trim_none(str) == str

\* str.trim(), over the texts the model enters
Trim(str) == IF str = " " THEN "" ELSE str

\* mutant: the pieces guard is missing
StopValid_noPieces(row, step, pieces, operator) ==
  /\ ~(step < 1 \/ (row.steps_count > 0 /\ step > row.steps_count))
  /\ operator # ""

\* confirmStop's three guards (each alerts and returns)
StopStepValid(row, step) ==
  ~(step < 1 \/ (row.steps_count > 0 /\ step > row.steps_count))
StopPiecesValid(pieces) == ~(pieces <= 0)
StopOperatorValid(operator) == operator # ""
StopValid(row, step, pieces, operator) ==
  /\ StopStepValid(row, step)
  /\ StopPiecesValid(pieces)
  /\ StopOperatorValid(operator)

\* the alert of the first guard that fails
StopAlert(row, step, pieces, operator) ==
  IF ~StopStepValid(row, step) THEN "Seleziona un passaggio valido."
  ELSE IF ~StopPiecesValid(pieces) THEN "Inserisci i pezzi."
  ELSE "Seleziona un operatore."

\* mutant: the pieces replace the step's progress instead of adding to it
StopProgress_overwrite(row, pass, pieces) == Put(row.steps_progress, pass, pieces)

\* nextStepsProg[pass] = (nextStepsProg[pass] ?? 0) + pieces
StopProgress(row, pass, pieces) ==
  Put(row.steps_progress, pass, Get0(row.steps_progress, pass) + pieces)

\* const newFully = computeFullyDone(stepsCount, nextStepsProg, 0)
StopNewFully(row, nextStepsProg) == computeFullyDone(row.steps_count, nextStepsProg, 0)

\* mutant: the previous fully-done quantity is not subtracted
StopDelta_noPrev(newFully, prevFully) == Max2(0, newFully)

\* const deltaNewBatch = Math.max(0, newFully - prevFully)
StopDelta(newFully, prevFully) == Max2(0, newFully - prevFully)

NewBatch(id, qty, at) ==
  [id |-> id, qty |-> qty, status |-> "parziale", created_at |-> at,
   status_changed_at |-> Null, packed_qty |-> Null, packed_boxes |-> Null,
   packed_size |-> NullS, packed_weight |-> Null, packed_notes |-> NullS]

\* mutant: the batch is pushed without the deltaNewBatch > 0 test
StopBatches_always(row, deltaNewBatch, id, at) ==
  Append(row.batches, NewBatch(id, deltaNewBatch, at))

\* mutant: the list is started afresh instead of copied
StopBatches_fresh(row, deltaNewBatch, id, at) ==
  IF deltaNewBatch > 0 THEN <<NewBatch(id, deltaNewBatch, at)>> ELSE <<>>

\* batches = [...row.batches]; if (deltaNewBatch > 0) batches.push({...})
StopBatches(row, deltaNewBatch, id, at) ==
  IF deltaNewBatch > 0 THEN Append(row.batches, NewBatch(id, deltaNewBatch, at))
  ELSE row.batches

\* mutant: > instead of >=
StopCompleted_strict(row, newFully) ==
  Num0(row.qty_requested) > 0 /\ newFully > Num0(row.qty_requested)

\* mutant: the richiesta > 0 test is left out
StopCompleted_anyRequested(row, newFully) == newFully >= Num0(row.qty_requested)

\* const isCompletedTot = richiesta > 0 && newFully >= richiesta
StopCompleted(row, newFully) ==
  Num0(row.qty_requested) > 0 /\ newFully >= Num0(row.qty_requested)

\* status: isCompletedTot ? 'eseguito' : 'da_iniziare'
StopStatus(isCompletedTot) == IF isCompletedTot THEN "eseguito" ELSE "da_iniziare"

\* the patch confirmStop writes with setDoc(..., { merge: true })
\* mutant: a stop zeroes the stored seconds
StopTotalElapsed_zero(prevElapsed, extraFromRun) == 0

\* mutant: a stop stores the seconds stored before, without the running segment
StopTotalElapsed_noRun(prevElapsed, extraFromRun) == Max2(0, prevElapsed)

\* the seconds a stop stores: those stored before plus the running segment
StopTotalElapsed(prevElapsed, extraFromRun) == Max2(0, prevElapsed + extraFromRun)

StopPatchOf(row, t, operator, stopStep, stopPieces, stopNotes) ==
  LET extraFromRun == IF t.present /\ t.startedAt # Null THEN RoundSec(now - t.startedAt) ELSE 0
      prevElapsed == baseElapsedOf(row)
      totalElapsed == StopTotalElapsed(prevElapsed, extraFromRun)
      pass == stopStep
      nextStepsTime == Put(row.steps_time, pass, Get0(row.steps_time, pass) + extraFromRun)
      nextStepsProg == StopProgress(row, pass, stopPieces)
      prevFully == Num0(row.qty_done)
      newFully == StopNewFully(row, nextStepsProg)
      deltaNewBatch == StopDelta(newFully, prevFully)
      notesLog == IF stopNotes # "" /\ Trim(stopNotes) # ""
                  THEN Append(row.notes_log,
                         [operator |-> operator, text |-> Trim(stopNotes),
                          step |-> pass, pieces |-> stopPieces])
                  ELSE row.notes_log
      opsLog == Append(row.ops_log,
                  [operator |-> operator, step |-> pass, pieces |-> stopPieces,
                   duration_sec |-> extraFromRun])
      batches == StopBatches(row, deltaNewBatch, idSeq + 1, now)
      isCompletedTot == StopCompleted(row, newFully)
  IN [ status |-> StopStatus(isCompletedTot),
       elapsed_sec |-> totalElapsed, total_elapsed_sec |-> totalElapsed,
       timer_start |-> Null,
       last_done_at |-> ServerTs,
       steps_time |-> nextStepsTime, steps_progress |-> nextStepsProg,
       qty_done |-> newFully,
       last_operator |-> operator,
       last_notes |-> IF stopNotes = "" THEN NullS ELSE stopNotes,
       last_step |-> pass, last_pieces |-> stopPieces,
       last_duration_sec |-> extraFromRun,
       notes_log |-> notesLog, ops_log |-> opsLog,
       batches |-> batches ]

\* the patch of the stop modal of this client
StopPatch(row, t, stopStep, stopPieces, stopNotes) ==
  StopPatchOf(row, t, stopOperator, stopStep, stopPieces, stopNotes)

\* stopStep is an option of the step select; stopPieces and stopNotes are typed
confirmStop(stopStep, stopPieces, stopNotes) ==
  /\ stopOpen
  /\ stopStep \in StepOptions(stopTarget)
  /\ IF ~StopValid(stopTarget, stopStep, stopPieces, stopOperator)
     THEN /\ alerted' = StopAlert(stopTarget, stopStep, stopPieces, stopOperator)
          /\ UNCHANGED <<doc, orders, timers, operators, now, idSeq, stopVars,
                         advanceVars, adminOpen, pending>>
     ELSE LET patch == StopPatch(stopTarget, timers, stopStep, stopPieces, stopNotes)
          IN /\ pending' = Append(pending,
                   Write("confirmStop", TRUE, patch,
                         [totalElapsed |-> patch.elapsed_sec,
                          isCompletedTot |-> patch.status = "eseguito"]))
             /\ idSeq' = IF Len(patch.batches) > Len(stopTarget.batches) THEN idSeq + 1 ELSE idSeq
             /\ alerted' = ""
             /\ UNCHANGED <<doc, orders, timers, operators, now, stopVars,
                            advanceVars, adminOpen>>

\* --------------------------------------------------- advance a batch
\* the id '__virtual__' of the batch shown for an order without batches
VirtualId == 0

VirtualBatch(o) ==
  [id |-> VirtualId, qty |-> Num0(o.qty_done),
   status |-> IF o.status \in {"in_essiccazione", "in_imballaggio", "pronti_consegna", "eseguito"}
              THEN o.status ELSE "parziale",
   created_at |-> o.status_changed_at,
   status_changed_at |-> Null,
   packed_qty |-> Num0(o.packed_qty), packed_boxes |-> o.packed_boxes,
   packed_size |-> o.packed_size, packed_weight |-> o.packed_weight,
   packed_notes |-> o.packed_notes]

\* mutant: the virtual batch is shown next to the real batches
batchesOnRight_alwaysVirtual(o) ==
  IF o.hidden THEN {}
  ELSE {o.batches[i] : i \in 1..Len(o.batches)}
       \cup (IF Num0(o.qty_done) > 0 THEN {VirtualBatch(o)} ELSE {})

\* batchesOnRight: the batches the right-hand list shows for the order
batchesOnRight(o) ==
  IF o.hidden THEN {}
  ELSE {o.batches[i] : i \in 1..Len(o.batches)}
       \cup (IF Len(o.batches) = 0 /\ Num0(o.qty_done) > 0 THEN {VirtualBatch(o)} ELSE {})

\* The advance modal's phase and packing fields are inputs of saveAdvance;
\* the batch the modal was opened on is state.
openAdvanceForBatch(batch) ==
  /\ NoModal
  /\ batch \in batchesOnRight(orders)
  /\ advanceBatchId' = batch.id
  /\ advanceOpen' = TRUE
  /\ alerted' = ""
  /\ UNCHANGED <<doc, orders, timers, operators, now, idSeq, stopVars, adminOpen, pending>>

closeAdvance ==
  /\ advanceOpen
  /\ advanceOpen' = FALSE
  /\ advanceBatchId' = VirtualId
  /\ alerted' = ""
  /\ UNCHANGED <<doc, orders, timers, operators, now, idSeq, stopVars, adminOpen, pending>>

\* batches.findIndex((b) => b.id === advanceBatchId); 0 stands for -1
FindBatch(batches, id) ==
  IF \E i \in 1..Len(batches) : batches[i].id = id
  THEN CHOOSE i \in 1..Len(batches) :
         batches[i].id = id /\ \A j \in 1..(i - 1) : batches[j].id # id
  ELSE 0

\* a packing form: boxes and weight are Null when left empty, size and notes ""
Packing(packed, boxes, size, weight, notes) ==
  [packed |-> packed, boxes |-> boxes, size |-> size, weight |-> weight, notes |-> notes]

\* mutant: a batch leaving pronti_consegna keeps its packing
AdvancedBatch_keepPacking(b, advancePhase, form) ==
  IF advancePhase = "pronti_consegna"
  THEN [b EXCEPT !.status = advancePhase, !.status_changed_at = now,
                 !.packed_qty = form.packed,
                 !.packed_boxes = form.boxes,
                 !.packed_size = IF Trim(form.size) = "" THEN NullS ELSE Trim(form.size),
                 !.packed_weight = form.weight,
                 !.packed_notes = IF Trim(form.notes) = "" THEN NullS ELSE Trim(form.notes)]
  ELSE [b EXCEPT !.status = advancePhase, !.status_changed_at = now]

\* the batch saveAdvance writes back
AdvancedBatch(b, advancePhase, form) ==
  IF advancePhase = "pronti_consegna"
  THEN [b EXCEPT !.status = advancePhase, !.status_changed_at = now,
                 !.packed_qty = form.packed,
                 !.packed_boxes = form.boxes,
                 !.packed_size = IF Trim(form.size) = "" THEN NullS ELSE Trim(form.size),
                 !.packed_weight = form.weight,
                 !.packed_notes = IF Trim(form.notes) = "" THEN NullS ELSE Trim(form.notes)]
  ELSE [b EXCEPT !.status = advancePhase, !.status_changed_at = now,
                 !.packed_qty = 0, !.packed_boxes = Null, !.packed_size = NullS,
                 !.packed_weight = Null, !.packed_notes = NullS]

\* mutant: the packed pieces are not looked at
AdvanceValid_any(advancePhase, form) == TRUE

\* if (!advancePacked || advancePacked <= 0) { alert(...); return; }
AdvanceValid(advancePhase, form) == ~(advancePhase = "pronti_consegna" /\ form.packed <= 0)

\* mutant: the chosen phase is written on every batch of the order
saveAdvance_allBatches(advancePhase, form) ==
  /\ advanceOpen
  /\ advancePhase \in AdvancePhases
  /\ LET idx == FindBatch(orders.batches, advanceBatchId)
     IN IF idx = 0 \/ ~AdvanceValid(advancePhase, form)
        THEN /\ alerted' = IF idx # 0 THEN "Inserisci i pezzi imballati." ELSE ""
             /\ UNCHANGED <<doc, orders, timers, operators, now, idSeq, stopVars,
                            advanceVars, adminOpen, pending>>
        ELSE /\ pending' = Append(pending,
                   Write("saveAdvance", FALSE,
                         [batches |-> [i \in 1..Len(orders.batches) |->
                                         AdvancedBatch(orders.batches[i], advancePhase, form)]],
                         NoLocals))
             /\ alerted' = ""
             /\ UNCHANGED <<doc, orders, timers, operators, now, idSeq, stopVars,
                            advanceVars, adminOpen>>

saveAdvance(advancePhase, form) ==
  /\ advanceOpen
  /\ advancePhase \in AdvancePhases
  /\ LET idx == FindBatch(orders.batches, advanceBatchId)
     IN IF idx = 0 \/ ~AdvanceValid(advancePhase, form)
        THEN /\ alerted' = IF idx # 0 THEN "Inserisci i pezzi imballati." ELSE ""
             /\ UNCHANGED <<doc, orders, timers, operators, now, idSeq, stopVars,
                            advanceVars, adminOpen, pending>>
        ELSE /\ pending' = Append(pending,
                   Write("saveAdvance", FALSE,
                         [batches |-> [orders.batches EXCEPT
                                         ![idx] = AdvancedBatch(@, advancePhase, form)]],
                         NoLocals))
             /\ alerted' = ""
             /\ UNCHANGED <<doc, orders, timers, operators, now, idSeq, stopVars,
                            advanceVars, adminOpen>>

\* ------------------------------------------------------------ admin
openAdmin ==
  /\ NoModal
  /\ adminOpen' = TRUE
  /\ alerted' = ""
  /\ UNCHANGED <<doc, orders, timers, operators, now, idSeq, stopVars, advanceVars, pending>>

closeAdmin ==
  /\ adminOpen
  /\ adminOpen' = FALSE
  /\ alerted' = ""
  /\ UNCHANGED <<doc, orders, timers, operators, now, idSeq, stopVars, advanceVars, pending>>

\* the admin modal lists the orders that are not deleted for ever
AdminRow == adminOpen /\ ~orders.deleted_permanently

addOperator(name) ==
  /\ adminOpen /\ Trim(name) # ""
  /\ pending' = Append(pending, Write("addOperator", TRUE, NoLocals, [name |-> Trim(name)]))
  /\ alerted' = ""
  /\ UNCHANGED <<doc, orders, timers, operators, now, idSeq, stopVars, advanceVars, adminOpen>>

removeOperator(name) ==
  /\ adminOpen /\ name \in operators
  /\ pending' = Append(pending, Write("removeOperator", FALSE, NoLocals, [name |-> name]))
  /\ alerted' = ""
  /\ UNCHANGED <<doc, orders, timers, operators, now, idSeq, stopVars, advanceVars, adminOpen>>

changeStatus(newStatus) ==
  /\ AdminRow /\ newStatus \in Statuses
  /\ pending' = Append(pending,
        Write("changeStatus", FALSE,
              [status |-> newStatus, status_changed_at |-> ServerTs], NoLocals))
  /\ alerted' = ""
  /\ UNCHANGED <<doc, orders, timers, operators, now, idSeq, stopVars, advanceVars, adminOpen>>

hideOrder ==
  /\ AdminRow /\ ~orders.hidden
  /\ pending' = Append(pending,
        Write("hideOrder", FALSE, [hidden |-> TRUE, deleted_at |-> ServerTs], NoLocals))
  /\ alerted' = ""
  /\ UNCHANGED <<doc, orders, timers, operators, now, idSeq, stopVars, advanceVars, adminOpen>>

\* mutant: a restored order starts again from da_iniziare
restoreOrder_restart ==
  /\ AdminRow /\ orders.hidden
  /\ pending' = Append(pending,
        Write("restoreOrder", FALSE, [hidden |-> FALSE, status |-> "da_iniziare"], NoLocals))
  /\ alerted' = ""
  /\ UNCHANGED <<doc, orders, timers, operators, now, idSeq, stopVars, advanceVars, adminOpen>>

restoreOrder ==
  /\ AdminRow /\ orders.hidden
  /\ pending' = Append(pending, Write("restoreOrder", FALSE, [hidden |-> FALSE], NoLocals))
  /\ alerted' = ""
  /\ UNCHANGED <<doc, orders, timers, operators, now, idSeq, stopVars, advanceVars, adminOpen>>

SystemNote(text, pieces) == [operator |-> "SYSTEM", text |-> text, step |-> Null, pieces |-> pieces]

\* mutant: the requested quantity is taken whenever it is present
ForceQty_requestedIfPresent(row, qtyOverride) ==
  IF qtyOverride # Null /\ qtyOverride >= 0 THEN qtyOverride
  ELSE IF row.qty_requested # Null THEN row.qty_requested ELSE Num0(row.qty_done)

\* mutant: any quantity typed is taken, below zero too
ForceQty_anyOverride(row, qtyOverride) ==
  LET richiesta == Num0(row.qty_requested)
  IN IF qtyOverride # Null THEN qtyOverride
     ELSE IF richiesta > 0 THEN richiesta ELSE Num0(row.qty_done)

\* qtyFinal of forceComplete; Null stands for an undefined qtyOverride
ForceQty(row, qtyOverride) ==
  LET richiesta == Num0(row.qty_requested)
  IN IF qtyOverride # Null /\ qtyOverride >= 0 THEN qtyOverride
     ELSE IF richiesta > 0 THEN richiesta ELSE Num0(row.qty_done)

\* mutant: the forced quantity is booked as a new batch
forceComplete_newBatch(qtyOverride) ==
  /\ AdminRow
  /\ LET qtyFinal == ForceQty(orders, qtyOverride)
     IN pending' = Append(pending,
          Write("forceComplete", TRUE,
                [status |-> "eseguito", status_changed_at |-> ServerTs,
                 last_done_at |-> ServerTs, forced_completed |-> TRUE,
                 qty_done |-> qtyFinal,
                 notes_log |-> Append(orders.notes_log, SystemNote("Forza conclusione", qtyFinal)),
                 batches |-> Append(orders.batches, NewBatch(idSeq + 1, qtyFinal, now))],
                NoLocals))
  /\ alerted' = ""
  /\ UNCHANGED <<doc, orders, timers, operators, now, idSeq, stopVars, advanceVars, adminOpen>>

forceComplete(qtyOverride) ==
  /\ AdminRow
  /\ LET qtyFinal == ForceQty(orders, qtyOverride)
     IN pending' = Append(pending,
          Write("forceComplete", TRUE,
                [status |-> "eseguito", status_changed_at |-> ServerTs,
                 last_done_at |-> ServerTs, forced_completed |-> TRUE,
                 qty_done |-> qtyFinal,
                 notes_log |-> Append(orders.notes_log, SystemNote("Forza conclusione", qtyFinal))],
                NoLocals))
  /\ alerted' = ""
  /\ UNCHANGED <<doc, orders, timers, operators, now, idSeq, stopVars, advanceVars, adminOpen>>

resetOrder ==
  /\ AdminRow
  /\ pending' = Append(pending,
        Write("resetOrder", TRUE,
              [status |-> "da_iniziare", status_changed_at |-> ServerTs,
               elapsed_sec |-> 0, total_elapsed_sec |-> 0, timer_start |-> Null,
               qty_done |-> 0, steps_progress |-> EmptyMap, steps_time |-> EmptyMap,
               packed_qty |-> 0, packed_boxes |-> Null, packed_size |-> NullS,
               packed_weight |-> Null, packed_notes |-> NullS,
               last_operator |-> NullS, last_notes |-> NullS, last_step |-> Null,
               last_pieces |-> Null, last_duration_sec |-> Null, last_done_at |-> Null,
               notes_log |-> Append(orders.notes_log,
                                    SystemNote("Azzera ordine (reset completo)", 0)),
               forced_completed |-> FALSE,
               batches |-> <<>>],
              NoLocals))
  /\ alerted' = ""
  /\ UNCHANGED <<doc, orders, timers, operators, now, idSeq, stopVars, advanceVars, adminOpen>>

deleteForever ==
  /\ AdminRow
  /\ pending' = Append(pending,
        Write("deleteForever", TRUE,
              [hidden |-> TRUE, deleted_permanently |-> TRUE, deleted_at |-> ServerTs,
               notes_log |-> Append(orders.notes_log,
                                    SystemNote("Eliminato definitivamente (soft-delete)", 0))],
              NoLocals))
  /\ alerted' = ""
  /\ UNCHANGED <<doc, orders, timers, operators, now, idSeq, stopVars, advanceVars, adminOpen>>

\* ------------------------------------------------ a store write settles
\* what the handler's code after the await merges into the mirror row
\* (new Date() and Date.now() are read when that code runs)
LocalPatch(w) ==
  CASE w.op \in {"onStart", "onResume"} -> [status |-> "in_esecuzione", timer_start |-> now]
    [] w.op = "onPause" -> w.patch
    [] w.op = "confirmStop" ->
         [f \in (DOMAIN w.patch) \cup {"status_changed_at"} |->
            IF f = "last_done_at" THEN now
            ELSE IF f = "status_changed_at"
                 THEN (IF w.k.isCompletedTot THEN now ELSE orders.status_changed_at)
            ELSE w.patch[f]]
    [] w.op = "saveAdvance" -> w.patch
    [] w.op = "changeStatus" -> [status |-> w.patch.status, status_changed_at |-> now]
    [] w.op = "hideOrder" -> [hidden |-> TRUE, deleted_at |-> now]
    [] w.op = "restoreOrder" -> w.patch
    [] w.op = "forceComplete" ->
         [f \in DOMAIN w.patch |-> IF f \in {"status_changed_at", "last_done_at"} THEN now
                                   ELSE w.patch[f]]
    [] w.op = "resetOrder" ->
         [f \in DOMAIN w.patch |-> IF f = "status_changed_at" THEN now ELSE w.patch[f]]
    [] w.op = "deleteForever" ->
         [f \in DOMAIN w.patch |-> IF f = "deleted_at" THEN now ELSE w.patch[f]]
    [] OTHER -> NoLocals

\* the oldest write reaches the store and the handler resumes after its await
WriteDone ==
  /\ pending # <<>>
  /\ LET w == Head(pending)
     IN /\ doc' = StoreApply(doc, w.patch, w.merge, now)
        /\ orders' = Spread(orders, LocalPatch(w))
        /\ timers' = CASE w.op = "confirmStop" ->
                            [present |-> TRUE, running |-> FALSE, startedAt |-> Null,
                             elapsed |-> w.k.totalElapsed]
                       [] w.op = "resetOrder" ->
                            [present |-> TRUE, running |-> FALSE, startedAt |-> Null, elapsed |-> 0]
                       [] OTHER -> timers
        /\ operators' = CASE w.op = "addOperator" -> operators \cup {w.k.name}
                          [] w.op = "removeOperator" -> operators \ {w.k.name}
                          [] OTHER -> operators
        /\ IF w.op = "confirmStop" /\ stopOpen
           THEN stopOpen' = FALSE /\ StopFormCleared
           ELSE UNCHANGED stopVars
        /\ IF w.op = "saveAdvance" /\ advanceOpen
           THEN advanceOpen' = FALSE /\ advanceBatchId' = VirtualId
           ELSE UNCHANGED advanceVars
        /\ alerted' = ""
  /\ pending' = Tail(pending)
  /\ UNCHANGED <<now, idSeq, adminOpen>>

\* -------------------------------------------- a store write is rejected
\* mutant: the timer is put back to stopped when the write is rejected
WriteFails_rollback ==
  /\ pending # <<>>
  /\ pending' = Tail(pending)
  /\ timers' = [timers EXCEPT !.running = FALSE, !.startedAt = Null]
  /\ UNCHANGED <<doc, orders, operators, now, idSeq, stopVars, advanceVars, adminOpen,
                 alerted>>

\* The awaited updateDoc/setDoc throws: the code after the await does not
\* run. forceComplete, resetOrder and deleteForever catch and alert; the
\* other handlers have no try/catch.
WriteFails ==
  /\ pending # <<>>
  /\ pending' = Tail(pending)
  /\ alerted' = CASE Head(pending).op = "forceComplete" -> "Errore forza conclusione"
                  [] Head(pending).op = "resetOrder" -> "Errore azzera ordine"
                  [] Head(pending).op = "deleteForever" -> "Errore elimina per sempre"
                  [] OTHER -> alerted
  /\ UNCHANGED <<doc, orders, timers, operators, now, idSeq, stopVars, advanceVars,
                 adminOpen>>

\* ---------------------------------------------------- a page reload
\* The page is loaded again: every useState starts afresh (no timers entry,
\* the modals closed) and the data load reads the order with getDocs.
reload ==
  /\ orders' = doc
  /\ timers' = NoTimer
  /\ stopOpen' = FALSE /\ StopFormCleared
  /\ advanceOpen' = FALSE /\ advanceBatchId' = VirtualId
  /\ adminOpen' = FALSE
  /\ alerted' = ""
  /\ UNCHANGED <<doc, operators, now, idSeq, pending>>

\* ------------------------------------------------ a second client
\* The second client runs the same App on the same document. Its mirror is
\* what getDocs returned when its page loaded; it never starts a timer, so
\* its timers map has no entry for the order.

\* the data load of the second client's page
peerLoad ==
  /\ ~peer.stopOpen
  /\ peer' = [peer EXCEPT !.orders = doc]
  /\ UNCHANGED <<doc, orders, timers, operators, now, idSeq, stopVars, advanceVars,
                 adminOpen, pending, alerted>>

peerOpenStop ==
  /\ ~peer.stopOpen /\ visibleOrders(peer.orders)
  /\ peer' = [peer EXCEPT !.stopOpen = TRUE, !.stopTarget = peer.orders, !.stopOperator = ""]
  /\ UNCHANGED <<doc, orders, timers, operators, now, idSeq, stopVars, advanceVars,
                 adminOpen, pending, alerted>>

peerSetStopOperator(v) ==
  /\ peer.stopOpen /\ v \in OperatorOptions
  /\ peer' = [peer EXCEPT !.stopOperator = v]
  /\ UNCHANGED <<doc, orders, timers, operators, now, idSeq, stopVars, advanceVars,
                 adminOpen, pending, alerted>>

\* mutant: the second client builds its patch from the stored document
PeerStopRow_stored == doc

\* the row the second client's confirmStop builds its patch from
PeerStopRow == peer.stopTarget

\* a write of the second client is in flight
PeerWriting == \E i \in 1..Len(pending) : pending[i].op = "peerConfirmStop"

peerConfirmStop(stopStep, stopPieces, stopNotes) ==
  /\ peer.stopOpen /\ ~PeerWriting
  /\ stopStep \in StepOptions(peer.stopTarget)
  /\ IF ~StopValid(peer.stopTarget, stopStep, stopPieces, peer.stopOperator)
     THEN UNCHANGED vars
     ELSE LET patch == StopPatchOf(PeerStopRow, NoTimer, peer.stopOperator,
                                   stopStep, stopPieces, stopNotes)
          IN /\ pending' = Append(pending,
                   Write("peerConfirmStop", TRUE, patch,
                         [totalElapsed |-> patch.elapsed_sec,
                          isCompletedTot |-> patch.status = "eseguito"]))
             /\ idSeq' = IF Len(patch.batches) > Len(PeerStopRow.batches)
                         THEN idSeq + 1 ELSE idSeq
             /\ UNCHANGED <<doc, orders, timers, operators, now, stopVars, advanceVars,
                            adminOpen, alerted, peer>>

\* the second client's stop write settles
peerWriteDone ==
  /\ pending # <<>>
  /\ Head(pending).op = "peerConfirmStop"
  /\ LET w == Head(pending)
         local == [f \in (DOMAIN w.patch) \cup {"status_changed_at"} |->
                     IF f = "last_done_at" THEN now
                     ELSE IF f = "status_changed_at"
                          THEN (IF w.k.isCompletedTot THEN now
                                ELSE peer.orders.status_changed_at)
                     ELSE w.patch[f]]
     IN /\ doc' = StoreApply(doc, w.patch, w.merge, now)
        /\ peer' = [peer EXCEPT !.orders = Spread(peer.orders, local),
                                !.stopOpen = FALSE, !.stopOperator = ""]
  /\ pending' = Tail(pending)
  /\ UNCHANGED <<orders, timers, operators, now, idSeq, stopVars, advanceVars,
                 adminOpen, alerted>>

\* the head write is one of this client
OwnWrite == pending # <<>> /\ Head(pending).op # "peerConfirmStop"

\* ------------------------------------------------------ input sets
\* steps_count and qty_requested of the imported order (Null: no quantity)
StepsInputs == {0, 1, 2}
ReqInputs == {Null, 0, 2}
\* what the user enters in the stop modal
PiecesInputs == {-1, 0, 1, 2}
StepInputs == {1, 2, 3}
NotesInputs == {"", "RAL 9010"}
\* the quantity typed next to Forza conclusione (Null: left empty; -2: a negative number)
OverrideInputs == {Null, -2, 0, 1, 2}
\* the packed pieces typed in the advance modal
PackedInputs == {0, 1}
InitOperators == {"anna"}
NewOperators == {"bruno"}

\* ---------------------------------------------------- specifications
InitLocal ==
  /\ timers = NoTimer
  /\ operators = InitOperators
  /\ now = StartMs
  /\ idSeq = 0
  /\ stopOpen = FALSE /\ stopTarget = Null /\ stopOperator = ""
  /\ advanceOpen = FALSE /\ advanceBatchId = VirtualId
  /\ adminOpen = FALSE
  /\ pending = <<>>
  /\ alerted = ""
  /\ peer = [orders |-> doc, stopOpen |-> FALSE, stopTarget |-> Null, stopOperator |-> ""]

\* a freshly imported order, loaded by the client
InitOrder(reqs, stepsCounts) ==
  /\ \E req \in reqs, steps \in stepsCounts : doc = NewOrder(req, steps)
  /\ orders = doc
  /\ InitLocal

Init == InitOrder(ReqInputs, StepsInputs)

\* the user acts only when no store write is in flight
Idle == pending = <<>>

\* the order has fewer than max stops recorded
StopsBelow(max) == Len(orders.ops_log) < max

\* fewer than MaxNotes system notes have been written on the order
NotesBelow == Len(orders.notes_log) < MaxNotes

\* --- start / pause / resume / stop on one client
NextWork ==
  \/ PeerIdle /\ Idle /\ onStart
  \/ PeerIdle /\ Idle /\ onPause
  \/ PeerIdle /\ Idle /\ onResume
  \/ PeerIdle /\ Idle /\ openStop
  \/ PeerIdle /\ Idle /\ \E v \in OperatorOptions : setStopOperator(v)
  \/ PeerIdle /\ Idle /\ closeStop
  \/ PeerIdle /\ Idle /\ StopsBelow(MaxStops)
          /\ \E s \in StepInputs, p \in PiecesInputs : confirmStop(s, p, "")
  \/ PeerIdle /\ WriteDone
  \/ PeerIdle /\ TicksBelow(MaxTicks) /\ Tick

SpecWork == InitOrder({0, 2}, StepsInputs) /\ [][NextWork]_vars

\* --- stop, setPhase, forceComplete, admin status change and reset on one client
NextAdmin ==
  \/ PeerIdle /\ Idle /\ openStop
  \/ PeerIdle /\ Idle /\ \E v \in OperatorOptions : setStopOperator(v)
  \/ PeerIdle /\ Idle /\ closeStop
  \/ PeerIdle /\ Idle /\ StopsBelow(MaxAdminStops)
          /\ \E s \in StepInputs, p \in PiecesInputs : confirmStop(s, p, "")
  \/ PeerIdle /\ Idle /\ \E b \in batchesOnRight(orders) : openAdvanceForBatch(b)
  \/ PeerIdle /\ Idle /\ closeAdvance
  \/ PeerIdle /\ Idle /\ \E ph \in AdvancePhases, pk \in PackedInputs :
                saveAdvance(ph, Packing(pk, Null, "", Null, ""))
  \/ PeerIdle /\ Idle /\ openAdmin
  \/ PeerIdle /\ Idle /\ closeAdmin
  \/ PeerIdle /\ Idle /\ \E st \in Statuses : changeStatus(st)
  \/ PeerIdle /\ Idle /\ NotesBelow /\ \E q \in OverrideInputs : forceComplete(q)
  \/ PeerIdle /\ Idle /\ NotesBelow /\ resetOrder
  \/ PeerIdle /\ WriteDone
  \/ PeerIdle /\ TicksBelow(MaxTicks) /\ Tick

SpecAdmin == Init /\ [][NextAdmin]_vars

\* --- the worked example: two steps, ten pieces requested, stops of 4 or 6 pieces
ScenarioSteps == {2}
ScenarioRequested == {0, 10}
ScenarioPieces == {4, 6}

NextScenario ==
  \/ PeerIdle /\ Idle /\ onStart
  \/ PeerIdle /\ Idle /\ openStop
  \/ PeerIdle /\ Idle /\ \E v \in OperatorOptions : setStopOperator(v)
  \/ PeerIdle /\ Idle /\ StopsBelow(MaxScenarioStops)
          /\ \E s \in {1, 2}, p \in ScenarioPieces : confirmStop(s, p, "")
  \/ PeerIdle /\ WriteDone
  \/ PeerIdle /\ TicksBelow(MaxTicks) /\ Tick

SpecScenario == InitOrder(ScenarioRequested, ScenarioSteps) /\ [][NextScenario]_vars

\* --- the step select on orders without steps, with few steps and with more
\* --- steps than the select offers
SelectSteps == {0, 2, SelectMax + 1}

NextSelect ==
  \/ PeerIdle /\ Idle /\ openStop
  \/ PeerIdle /\ Idle /\ \E v \in OperatorOptions : setStopOperator(v)
  \/ PeerIdle /\ Idle /\ closeStop
  \/ PeerIdle /\ Idle /\ StopsBelow(MaxStops)
          /\ \E s \in 1..(SelectMax + 1), p \in {0, 1} : confirmStop(s, p, "")
  \/ PeerIdle /\ WriteDone
  \/ PeerIdle /\ TicksBelow(MaxTicks) /\ Tick

SpecSelect == InitOrder({0}, SelectSteps) /\ [][NextSelect]_vars

\* --- operators added and removed while the user goes on working: the user
\* --- also acts while operator writes (and nothing else) are in flight
OperatorWritesOnly ==
  /\ Len(pending) <= MaxOperatorWrites
  /\ \A i \in 1..Len(pending) : pending[i].op \in {"addOperator", "removeOperator"}

NextOperators ==
  \/ PeerIdle /\ OperatorWritesOnly /\ openAdmin
  \/ PeerIdle /\ OperatorWritesOnly /\ closeAdmin
  \/ PeerIdle /\ OperatorWritesOnly /\ Len(pending) < MaxOperatorWrites
       /\ \E name \in NewOperators : addOperator(name)
  \/ PeerIdle /\ OperatorWritesOnly /\ Len(pending) < MaxOperatorWrites
       /\ \E name \in operators : removeOperator(name)
  \/ PeerIdle /\ OperatorWritesOnly /\ openStop
  \/ PeerIdle /\ OperatorWritesOnly /\ \E v \in OperatorOptions : setStopOperator(v)
  \/ PeerIdle /\ OperatorWritesOnly /\ closeStop
  \/ PeerIdle /\ OperatorWritesOnly /\ StopsBelow(MaxStops)
       /\ \E s \in StepInputs, p \in PiecesInputs, n \in NotesInputs : confirmStop(s, p, n)
  \/ PeerIdle /\ WriteDone
  \/ PeerIdle /\ TicksBelow(MaxTicks) /\ Tick

SpecOperators == InitOrder({2}, {1}) /\ [][NextOperators]_vars

\* --- advancing the batches of an order: stops create them, the advance
\* --- modal moves them between phases with a packing form
PackingInputs ==
  { Packing(-1, Null, "", Null, ""), Packing(0, 2, "80x60", 3, "fragile"),
    Packing(1, Null, "", Null, ""), Packing(2, 2, "80x60", 3, "fragile") }

NextAdvance ==
  \/ PeerIdle /\ Idle /\ openStop
  \/ PeerIdle /\ Idle /\ \E v \in operators : setStopOperator(v)
  \/ PeerIdle /\ Idle /\ StopsBelow(MaxStops) /\ confirmStop(1, 1, "")
  \/ PeerIdle /\ Idle /\ \E b \in batchesOnRight(orders) : openAdvanceForBatch(b)
  \/ PeerIdle /\ Idle /\ closeAdvance
  \/ PeerIdle /\ Idle /\ \E ph \in AdvancePhases, f \in PackingInputs : saveAdvance(ph, f)
  \/ PeerIdle /\ WriteDone
  \/ PeerIdle /\ TicksBelow(MaxTicks) /\ Tick

SpecAdvance == InitOrder({0}, {1}) /\ [][NextAdvance]_vars

\* --- force-complete and reset of an order that has been worked on: timer,
\* --- a stop that books a batch, then the admin buttons
ForceNotesBelow == Len(orders.notes_log) < MaxForceNotes

NextForce ==
  \/ PeerIdle /\ Idle /\ onStart
  \/ PeerIdle /\ Idle /\ openStop
  \/ PeerIdle /\ Idle /\ \E v \in operators : setStopOperator(v)
  \/ PeerIdle /\ Idle /\ StopsBelow(MaxAdminStops) /\ \E p \in {1, 2} : confirmStop(1, p, "")
  \/ PeerIdle /\ Idle /\ openAdmin
  \/ PeerIdle /\ Idle /\ closeAdmin
  \/ PeerIdle /\ Idle /\ ForceNotesBelow /\ \E q \in OverrideInputs : forceComplete(q)
  \/ PeerIdle /\ Idle /\ ForceNotesBelow /\ resetOrder
  \/ PeerIdle /\ WriteDone
  \/ PeerIdle /\ TicksBelow(MaxTicks) /\ Tick

SpecForce == InitOrder(ReqInputs, {1}) /\ [][NextForce]_vars

\* --- the life of an order and its batches under every button: stops book
\* --- batches, the advance modal moves them, the admin forces, changes the
\* --- status, hides, restores, deletes and resets
LifeStatuses == {"da_iniziare", "pronti_consegna", "eseguito"}
LifeOverrides == {Null, 1}

NextLife ==
  \/ PeerIdle /\ Idle /\ openStop
  \/ PeerIdle /\ Idle /\ \E v \in operators : setStopOperator(v)
  \/ PeerIdle /\ Idle /\ StopsBelow(MaxStops) /\ confirmStop(1, 1, "")
  \/ PeerIdle /\ Idle /\ \E b \in batchesOnRight(orders) : openAdvanceForBatch(b)
  \/ PeerIdle /\ Idle /\ closeAdvance
  \/ PeerIdle /\ Idle /\ \E ph \in {"in_imballaggio", "pronti_consegna"} :
                saveAdvance(ph, Packing(1, Null, "", Null, ""))
  \/ PeerIdle /\ Idle /\ openAdmin
  \/ PeerIdle /\ Idle /\ closeAdmin
  \/ PeerIdle /\ Idle /\ \E st \in LifeStatuses : changeStatus(st)
  \/ PeerIdle /\ Idle /\ ForceNotesBelow /\ \E q \in LifeOverrides : forceComplete(q)
  \/ PeerIdle /\ Idle /\ hideOrder
  \/ PeerIdle /\ Idle /\ restoreOrder
  \/ PeerIdle /\ Idle /\ ForceNotesBelow /\ deleteForever
  \/ PeerIdle /\ Idle /\ ForceNotesBelow /\ resetOrder
  \/ PeerIdle /\ WriteDone

SpecLife == InitOrder({0}, {1}) /\ [][NextLife]_vars

\* --- two clients on one order with two steps: each opens its stop modal on
\* --- its own mirror and records pieces; the first records 1 piece, the
\* --- second 2
PeersSteps == {1, 2}

NextPeers ==
  \/ PeerIdle /\ Idle /\ openStop
  \/ PeerIdle /\ Idle /\ \E v \in operators : setStopOperator(v)
  \/ PeerIdle /\ Idle /\ StopsBelow(MaxStops) /\ \E s \in PeersSteps : confirmStop(s, 1, "")
  \/ PeerIdle /\ OwnWrite /\ WriteDone
  \/ peerLoad
  \/ peerOpenStop
  \/ \E v \in operators : peerSetStopOperator(v)
  \/ Len(peer.orders.ops_log) < MaxStops /\ \E s \in PeersSteps : peerConfirmStop(s, 2, "")
  \/ peerWriteDone

SpecPeers == InitOrder({0}, {2}) /\ [][NextPeers]_vars

\* --- store writes that can be rejected: timer, stop and advance on one order
\* genId() has handed out fewer than max ids
IdsBelow(max) == idSeq < max

NextFail ==
  \/ PeerIdle /\ Idle /\ onStart
  \/ PeerIdle /\ Idle /\ onPause
  \/ PeerIdle /\ Idle /\ onResume
  \/ PeerIdle /\ Idle /\ openStop
  \/ PeerIdle /\ Idle /\ \E v \in operators : setStopOperator(v)
  \/ PeerIdle /\ Idle /\ IdsBelow(MaxStops) /\ confirmStop(1, 1, "")
  \/ PeerIdle /\ Idle /\ \E b \in batchesOnRight(orders) : openAdvanceForBatch(b)
  \/ PeerIdle /\ Idle /\ saveAdvance("pronti_consegna", Packing(1, Null, "", Null, ""))
  \/ PeerIdle /\ WriteDone
  \/ PeerIdle /\ WriteFails
  \/ PeerIdle /\ TicksBelow(MaxTicks) /\ Tick

SpecFail == InitOrder({0}, {1}) /\ [][NextFail]_vars

\* --- the logs of an order: stops with and without notes, the timer running
\* --- or not
LogNotes == {"", " ", "RAL 9010"}

NextLog ==
  \/ PeerIdle /\ Idle /\ onStart
  \/ PeerIdle /\ Idle /\ openStop
  \/ PeerIdle /\ Idle /\ \E v \in operators : setStopOperator(v)
  \/ PeerIdle /\ Idle /\ StopsBelow(MaxStops)
          /\ \E s \in PeersSteps, n \in LogNotes : confirmStop(s, 1, n)
  \/ PeerIdle /\ WriteDone
  \/ PeerIdle /\ TicksBelow(MaxTicks) /\ Tick

SpecLog == InitOrder({0}, {2}) /\ [][NextLog]_vars

\* --- negative entries: pieces below zero in the stop modal, a quantity below
\* --- zero next to Forza conclusione, with resets in between
SignPieces == {-1, 1}
SignOverrides == {Null, -2, 1}

NextSigns ==
  \/ PeerIdle /\ Idle /\ openStop
  \/ PeerIdle /\ Idle /\ \E v \in operators : setStopOperator(v)
  \/ PeerIdle /\ Idle /\ StopsBelow(MaxStops)
          /\ \E s \in PeersSteps, p \in SignPieces : confirmStop(s, p, "")
  \/ PeerIdle /\ Idle /\ openAdmin
  \/ PeerIdle /\ Idle /\ closeAdmin
  \/ PeerIdle /\ Idle /\ ForceNotesBelow /\ \E q \in SignOverrides : forceComplete(q)
  \/ PeerIdle /\ Idle /\ ForceNotesBelow /\ resetOrder
  \/ PeerIdle /\ WriteDone

SpecSigns == InitOrder({0, 2}, {2}) /\ [][NextSigns]_vars

\* --- the timer across page reloads
NextReload ==
  \/ PeerIdle /\ Idle /\ onStart
  \/ PeerIdle /\ Idle /\ onPause
  \/ PeerIdle /\ Idle /\ onResume
  \/ PeerIdle /\ Idle /\ openStop
  \/ PeerIdle /\ Idle /\ \E v \in operators : setStopOperator(v)
  \/ PeerIdle /\ Idle /\ StopsBelow(MaxTimerStops) /\ confirmStop(1, 1, "")
  \/ PeerIdle /\ Idle /\ reload
  \/ PeerIdle /\ WriteDone
  \/ PeerIdle /\ TicksBelow(MaxTimerTicks) /\ Tick

SpecReload == InitOrder({0}, {1}) /\ [][NextReload]_vars

\* --- clicks that do not wait for the store: the page stays live while a
\* --- handler awaits its write, so a button can be clicked again
InFlightBelow(max) == Len(pending) < max

NextClicks ==
  \/ PeerIdle /\ InFlightBelow(MaxInFlight) /\ onStart
  \/ PeerIdle /\ InFlightBelow(MaxInFlight) /\ onPause
  \/ PeerIdle /\ InFlightBelow(MaxInFlight) /\ onResume
  \/ PeerIdle /\ WriteDone
  \/ PeerIdle /\ TicksBelow(MaxTimerTicks) /\ Tick

SpecClicks == InitOrder({0}, {1}) /\ [][NextClicks]_vars

\* --- a stop submitted again: Registra clicked a second time while the first
\* --- write is in flight, or once more after the write was rejected
NextResubmit ==
  \/ PeerIdle /\ Idle /\ onStart
  \/ PeerIdle /\ Idle /\ openStop
  \/ PeerIdle /\ Idle /\ \E v \in operators : setStopOperator(v)
  \/ PeerIdle /\ InFlightBelow(MaxInFlight) /\ StopsBelow(MaxStops)
          /\ IdsBelow(MaxScenarioStops) /\ confirmStop(1, 1, "")
  \/ PeerIdle /\ WriteDone
  \/ PeerIdle /\ WriteFails
  \/ PeerIdle /\ TicksBelow(MaxTicks) /\ Tick

SpecResubmit == InitOrder({0}, {1}) /\ [][NextResubmit]_vars

\* --- the seconds of the steps: timer buttons and stops on an order with two
\* --- steps
NextStepTime ==
  \/ PeerIdle /\ Idle /\ onStart
  \/ PeerIdle /\ Idle /\ onPause
  \/ PeerIdle /\ Idle /\ onResume
  \/ PeerIdle /\ Idle /\ openStop
  \/ PeerIdle /\ Idle /\ \E v \in operators : setStopOperator(v)
  \/ PeerIdle /\ Idle /\ StopsBelow(MaxStops) /\ \E s \in PeersSteps : confirmStop(s, 1, "")
  \/ PeerIdle /\ WriteDone
  \/ PeerIdle /\ TicksBelow(MaxTimerTicks) /\ Tick

SpecStepTime == InitOrder({0}, {2}) /\ [][NextStepTime]_vars

\* --- the timer over several seconds: start, pause, resume, and a stop to
\* --- begin a second start with seconds already counted
NextTimer ==
  \/ PeerIdle /\ Idle /\ onStart
  \/ PeerIdle /\ Idle /\ onPause
  \/ PeerIdle /\ Idle /\ onResume
  \/ PeerIdle /\ Idle /\ openStop
  \/ PeerIdle /\ Idle /\ \E v \in operators : setStopOperator(v)
  \/ PeerIdle /\ Idle /\ StopsBelow(MaxTimerStops) /\ confirmStop(1, 1, "")
  \/ PeerIdle /\ WriteDone
  \/ PeerIdle /\ TicksBelow(MaxTimerTicks) /\ Tick

SpecTimer == InitOrder({0}, {1}) /\ [][NextTimer]_vars

\* --- computeFullyDone on its own: any steps_count, any steps_progress
FnSteps == (-1) .. MaxFnSteps
FnProgress ==
  UNION {[S -> 0..MaxFnPieces] : S \in SUBSET (1..MaxFnSteps)}

\* a row whose qty_done has not been computed yet
InitFn ==
  /\ \E n \in FnSteps, p \in FnProgress :
        doc = [NewOrder(Null, n) EXCEPT !.steps_progress = p, !.qty_done = Null]
  /\ orders = doc
  /\ InitLocal

\* qty_done: computeFullyDone(steps_count, steps_progress), defaultZero left out
applyComputeFullyDone ==
  /\ orders.qty_done = Null
  /\ orders' = [orders EXCEPT
                  !.qty_done = computeFullyDone(orders.steps_count, orders.steps_progress, 0)]
  /\ UNCHANGED <<doc, timers, operators, now, idSeq, stopVars, advanceVars,
                 adminOpen, pending, alerted>>

NextFn == PeerIdle /\ applyComputeFullyDone

SpecFn == InitFn /\ [][NextFn]_vars

\* ------------------------------------------------------------ claims
\* a confirmStop write reaches the store in this step
StopSettles ==
  /\ pending # <<>>
  /\ Head(pending).op = "confirmStop"
  /\ pending' = Tail(pending)

\* confirmStop issues its store write in this step
StopIssued ==
  /\ Len(pending') = Len(pending) + 1
  /\ pending'[Len(pending')].op = "confirmStop"

\* the write a handler issues in this step
Issued == pending'[Len(pending')]
IssuedOp(op) == Len(pending') = Len(pending) + 1 /\ Issued.op = op

\* the write of one of these handlers reaches the store in this step
Settles(ops) ==
  /\ pending # <<>>
  /\ Head(pending).op \in ops
  /\ pending' = Tail(pending)

\* the (step, pieces) pairs of the stops recorded on a row, and its batch sizes
StopsOf(row) == [i \in 1..Len(row.ops_log) |-> <<row.ops_log[i].step, row.ops_log[i].pieces>>]
BatchQtys(row) == [i \in 1..Len(row.batches) |-> row.batches[i].qty]

\* the least recorded progress of steps 1..n, every one of them recorded
LeastOf(n, p) == CHOOSE m \in {p[i] : i \in 1..n} : \A i \in 1..n : m <= p[i]

\* C1: computeFullyDone, defaultZero left at its default, returns the least
\* progress of steps 1..steps_count when every step has progress recorded, 0
\* when some step has none, and 0 when steps_count <= 0.
C1_FullyDoneIsLeastStep ==
  orders.qty_done # Null =>
    LET n == orders.steps_count
        p == orders.steps_progress
    IN /\ (n <= 0 => orders.qty_done = 0)
       /\ (n > 0 /\ (\E i \in 1..n : i \notin DOMAIN p) => orders.qty_done = 0)
       /\ (n > 0 /\ (\A i \in 1..n : i \in DOMAIN p) => orders.qty_done = LeastOf(n, p))

\* three steps, all recorded, the second the least
C1_Witness ==
  /\ orders.steps_count = 3
  /\ orders.steps_progress = [i \in 1..3 |-> IF i = 2 THEN 1 ELSE 2]
  /\ orders.qty_done = 1

\* the worked example of C2: the stops, and what the order holds after each
ScenarioStops == << <<1, 6>>, <<2, 6>>, <<1, 4>>, <<2, 4>> >>
ScenarioAfter ==
  << [done |-> 0,  batches |-> <<>>,      status |-> "da_iniziare"],
     [done |-> 6,  batches |-> <<6>>,     status |-> "da_iniziare"],
     [done |-> 6,  batches |-> <<6>>,     status |-> "da_iniziare"],
     [done |-> 10, batches |-> <<6, 4>>,  status |-> "eseguito"] >>

\* C2: when a stop settles, the order's status is eseguito (done) iff
\* qty_requested > 0 and the new qty_done >= qty_requested, and da_iniziare
\* otherwise; with two steps and ten pieces requested, the stops (1,6), (2,6),
\* (1,4), (2,4) leave qty_done 0, 6, 6, 10, batches none, 6, 6, 6+4, and only
\* the last one sets the status to eseguito.
C2_StatusAfterStop ==
  [][StopSettles =>
       /\ doc'.status =
            IF Num0(doc'.qty_requested) > 0 /\ Num0(doc'.qty_done) >= Num0(doc'.qty_requested)
            THEN "eseguito" ELSE "da_iniziare"
       /\ \A k \in 1..Len(ScenarioStops) :
            (doc'.qty_requested = 10 /\ StopsOf(doc') = SubSeq(ScenarioStops, 1, k)) =>
               /\ doc'.qty_done = ScenarioAfter[k].done
               /\ BatchQtys(doc') = ScenarioAfter[k].batches
               /\ doc'.status = ScenarioAfter[k].status]_vars

\* the whole example has run
C2_Witness ==
  /\ doc.qty_requested = 10
  /\ StopsOf(doc) = ScenarioStops
  /\ doc.status = "eseguito"
  /\ doc.qty_done = 10

\* C3: a stop that raises qty_done appends exactly one batch, of the size of
\* the rise and in status parziale; a stop that does not raise it appends
\* none; the batches already there keep their content and order.
C3_OneBatchPerRise ==
  [][StopSettles =>
       LET prev == Num0(doc.qty_done)
           new == Num0(doc'.qty_done)
           n == Len(doc.batches)
       IN /\ (new > prev => /\ Len(doc'.batches) = n + 1
                             /\ doc'.batches[n + 1].qty = new - prev
                             /\ doc'.batches[n + 1].status = "parziale")
          /\ (new <= prev => Len(doc'.batches) = n)
          /\ SubSeq(doc'.batches, 1, n) = doc.batches]_vars

\* a second batch has been appended after the first
C3_Witness ==
  /\ Len(doc.batches) = 2
  /\ doc.batches[1].qty = 1
  /\ doc.batches[2].qty = 1
  /\ doc.batches[1].id # doc.batches[2].id

\* C4: with only start, pause, resume and stop applied, the batch sizes add
\* up to exactly qty_done, in the store and in the client's mirror.
C4_BatchesSumToFullyDone ==
  /\ SumQty(doc.batches) = Num0(doc.qty_done)
  /\ SumQty(orders.batches) = Num0(orders.qty_done)

\* two batches of different sizes
C4_Witness ==
  /\ Len(doc.batches) = 2
  /\ doc.batches[1].qty = 1
  /\ doc.batches[2].qty = 2
  /\ doc.qty_done = 3

\* C5, as claimed: with stop, setPhase, forceComplete and reset applied, the
\* batch sizes add up to at most qty_done.
C5_AsClaimed == SumQty(doc.batches) <= Num0(doc.qty_done)

\* C6: with only start, pause, resume and stop applied, the qty_done a stop
\* stores is never below the qty_done stored before it.
C6_FullyDoneNeverDrops ==
  [][StopSettles => Num0(doc'.qty_done) >= Num0(doc.qty_done)]_vars

\* two stops on the same step, the second one raising qty_done further
C6_Witness ==
  /\ Len(doc.ops_log) = 2
  /\ doc.ops_log[1].step = doc.ops_log[2].step
  /\ doc.steps_count = 1
  /\ doc.qty_done = 4

\* C7, as claimed: the qty_done a stop stores is the greater of the previous
\* qty_done and the least step progress, also after forceComplete.
C7_AsClaimed ==
  [][StopSettles =>
       Num0(doc'.qty_done) =
         Max2(Num0(doc.qty_done),
              computeFullyDone(doc'.steps_count, doc'.steps_progress, 0))]_vars

\* C8: a confirmStop with pieces <= 0 or with no operator chosen changes
\* nothing: the store, the mirror, the timer, the writes in flight (and so the
\* batches) and the stop modal are as before.
C8_RejectedStopChangesNothing ==
  [][\A s \in StepInputs, p \in PiecesInputs, n \in NotesInputs :
       ((p <= 0 \/ stopOperator = "") /\ confirmStop(s, p, n)) =>
          UNCHANGED <<doc, orders, timers, operators, idSeq, stopVars, pending>>]_vars

\* a stop without pieces has just been refused while the timer runs
C8_Witness ==
  /\ alerted = "Inserisci i pezzi."
  /\ stopOpen
  /\ timers.running

\* the steps C9 says a stop is accepted with
ClaimedSteps(row) == IF row.steps_count > 0 THEN 1..row.steps_count ELSE 1..10

\* the steps the modal can submit and confirmStop's guard lets pass
AcceptedSteps(row) == {s \in StepOptions(row) : StopStepValid(row, s)}

\* C9, as claimed: a stop is accepted with every step in 1..steps_count
\* (1..10 when steps_count = 0) and with no other step.
C9_AsClaimed == stopOpen => AcceptedSteps(stopTarget) = ClaimedSteps(stopTarget)

\* C10, as claimed: a stop is accepted only when its operator is one of the
\* known operators.
C10_AsClaimed ==
  [][StopIssued => stopOperator \in operators]_vars

\* C11: a pause persists the elapsed_sec stored before it plus the running
\* segment since the last start or resume, rounded to whole seconds; start
\* and resume begin a segment at the time of the click and leave the stored
\* elapsed_sec alone, so that over start, (pause, resume)*, pause the last
\* pause stores the elapsed_sec before the start plus the rounded segments,
\* and no time spent paused.
C11_PauseAddsRunningSegments ==
  [][/\ (IssuedOp("onPause") =>
            Issued.patch.elapsed_sec = Num0(doc.elapsed_sec) + RoundSec(now - doc.timer_start))
     /\ (Settles({"onPause"}) => doc'.elapsed_sec = Head(pending).patch.elapsed_sec)
     /\ ((IssuedOp("onStart") \/ IssuedOp("onResume")) => Issued.patch.timer_start = now)
     /\ (Settles({"onStart", "onResume"}) =>
            /\ doc'.elapsed_sec = doc.elapsed_sec
            /\ doc'.timer_start = Head(pending).patch.timer_start)]_vars

\* two seconds of clock, more than one segment, each rounded up to a second
C11_Witness ==
  /\ doc.status = "pausato"
  /\ doc.ops_log = <<>>
  /\ doc.elapsed_sec = 3
  /\ now = StartMs + 4 * TickMs

\* C12: the persisted timer_start is set exactly when the persisted status
\* is in_esecuzione, whichever handler wrote last.
C12_AsClaimed ==
  (doc.timer_start # Null) <=> (doc.status = "in_esecuzione")

\* the running segment a handler sees at the time of its click
RunningSegment == IF doc.timer_start # Null THEN RoundSec(now - doc.timer_start) ELSE 0

C14_AsClaimed ==
  [][StopIssued =>
       LET step == Issued.patch.last_step
       IN Get0(Issued.patch.steps_time, step) =
            Get0(doc.steps_time, step) + RunningSegment + Num0(doc.elapsed_sec)]_vars

\* the packing of a batch is cleared
PackingCleared(b) ==
  /\ b.packed_qty = 0
  /\ b.packed_boxes = Null /\ b.packed_size = NullS
  /\ b.packed_weight = Null /\ b.packed_notes = NullS

\* C15: saving the phase pronti_consegna with packed pieces <= 0 is rejected
\* and changes nothing in the document, the mirror or the queue of writes;
\* with packed pieces > 0 on a batch of the order it issues a write that puts
\* the batch in pronti_consegna with that packed_qty, and the write reaches
\* the document and the mirror.
C15_PackedQtyRequired ==
  [][/\ \A f \in PackingInputs :
          (f.packed <= 0 /\ saveAdvance("pronti_consegna", f))
            => UNCHANGED <<doc, orders, timers, pending, advanceVars>>
     /\ \A f \in PackingInputs :
          LET idx == FindBatch(orders.batches, advanceBatchId)
          IN (f.packed > 0 /\ idx # 0 /\ saveAdvance("pronti_consegna", f))
               => /\ IssuedOp("saveAdvance")
                  /\ Issued.patch.batches[idx].status = "pronti_consegna"
                  /\ Issued.patch.batches[idx].packed_qty = f.packed
     /\ (Settles({"saveAdvance"}) =>
            /\ doc'.batches = Head(pending).patch.batches
            /\ orders'.batches = doc'.batches)]_vars

\* a batch stored in pronti_consegna with its packed pieces, and a later
\* save without packed pieces rejected with the alert
C15_Witness ==
  /\ advanceOpen /\ pending = <<>>
  /\ alerted = "Inserisci i pezzi imballati."
  /\ \E i \in 1..Len(doc.batches) :
       /\ doc.batches[i].id = advanceBatchId
       /\ doc.batches[i].status = "pronti_consegna"
       /\ doc.batches[i].packed_qty = 2
       /\ doc.batches[i].packed_size = "80x60"
       /\ orders.batches[i] = doc.batches[i]

C17_AsClaimed ==
  /\ (doc.status = "pronti_consegna" => Num0(doc.packed_qty) > 0)
  /\ \A i \in 1..Len(doc.batches) :
       doc.batches[i].status = "pronti_consegna" => Num0(doc.batches[i].packed_qty) > 0

\* the last note of the order's notes log
LastNote(row) == row.notes_log[Len(row.notes_log)]

\* C18 as stated: without an override the requested quantity is taken
\* whenever it is present, zero included.
C18_AsClaimed ==
  [][\A q \in OverrideInputs :
       ((q = Null \/ q >= 0) /\ forceComplete(q))
         => Issued.patch.qty_done =
              (IF q # Null THEN q
               ELSE IF doc.qty_requested # Null THEN doc.qty_requested
               ELSE doc.qty_done)]_vars

\* C18: forceComplete is refused in no order state; it stores status
\* eseguito and forced_completed true, and as qty_done the override when one
\* >= 0 is given, otherwise the requested quantity when that is > 0, otherwise
\* the current qty_done (requested quantity absent or 0).
C18_ForcedQuantity ==
  [][/\ \A q \in OverrideInputs :
          forceComplete(q)
            => /\ IssuedOp("forceComplete")
               /\ Issued.patch.status = "eseguito"
               /\ Issued.patch.forced_completed
               /\ Issued.patch.qty_done =
                    (IF q # Null /\ q >= 0 THEN q
                     ELSE IF doc.qty_requested # Null /\ doc.qty_requested > 0
                          THEN doc.qty_requested
                     ELSE doc.qty_done)
               /\ (doc.qty_requested = 0 /\ doc.qty_done = 0 /\ q = Null
                     => Issued.patch.qty_done = 0)
     /\ (Settles({"forceComplete"}) =>
            /\ doc'.status = "eseguito" /\ doc'.forced_completed
            /\ doc'.qty_done = Head(pending).patch.qty_done
            /\ orders'.status = "eseguito" /\ orders'.forced_completed
            /\ orders'.qty_done = doc'.qty_done)]_vars

\* an order with requested quantity 0 forced to done keeps the piece it had
C18_Witness ==
  /\ doc.qty_requested = 0
  /\ doc.status = "eseguito" /\ doc.forced_completed
  /\ doc.qty_done = 1
  /\ doc.notes_log # <<>>
  /\ LastNote(doc) = SystemNote("Forza conclusione", 1)

\* C19: a forceComplete that reaches the store changes qty_done, status,
\* forced_completed, status_changed_at, last_done_at and appends one SYSTEM
\* note; batches, steps_progress, steps_time, elapsed_sec, the ops log and
\* every other field stay as they were, in the document and in the mirror,
\* and the local timer is not touched.
C19_ForceTouchesOnlyItsFields ==
  [][Settles({"forceComplete"}) =>
       /\ doc' = [doc EXCEPT !.qty_done = doc'.qty_done,
                             !.status = "eseguito",
                             !.forced_completed = TRUE,
                             !.status_changed_at = now,
                             !.last_done_at = now,
                             !.notes_log = Append(doc.notes_log,
                                             SystemNote("Forza conclusione", doc'.qty_done))]
       /\ orders' = [orders EXCEPT !.qty_done = doc'.qty_done,
                                   !.status = "eseguito",
                                   !.forced_completed = TRUE,
                                   !.status_changed_at = now,
                                   !.last_done_at = now,
                                   !.notes_log = doc'.notes_log]
       /\ UNCHANGED <<timers, idSeq>>]_vars

\* an order forced to quantity 0 whose batch, step progress and seconds are
\* still there
C19_Witness ==
  /\ doc.status = "eseguito" /\ doc.forced_completed
  /\ doc.notes_log # <<>>
  /\ LastNote(doc) = SystemNote("Forza conclusione", 0)
  /\ Len(doc.batches) = 1 /\ doc.batches[1].qty = 2
  /\ Get0(doc.steps_progress, 1) = 2
  /\ Get0(doc.steps_time, 1) = 1 /\ doc.elapsed_sec = 1
  /\ Len(doc.ops_log) = 1

\* C20: a reset that reaches the store leaves the document and the mirror
\* with status da_iniziare, elapsed_sec 0, timer_start null, steps_progress
\* and steps_time empty, qty_done 0, packed_qty 0 and the other packing
\* fields null, no batches, the last-stop fields null, and the notes log of
\* before plus one SYSTEM note; the local timer is stopped at 0.
ResetState(row, notesBefore) ==
  /\ row.status = "da_iniziare"
  /\ row.elapsed_sec = 0 /\ row.total_elapsed_sec = 0 /\ row.timer_start = Null
  /\ row.steps_progress = EmptyMap /\ row.steps_time = EmptyMap
  /\ row.qty_done = 0
  /\ row.packed_qty = 0
  /\ row.packed_boxes = Null /\ row.packed_size = NullS
  /\ row.packed_weight = Null /\ row.packed_notes = NullS
  /\ row.batches = <<>>
  /\ row.last_operator = NullS /\ row.last_notes = NullS
  /\ row.last_step = Null /\ row.last_pieces = Null
  /\ row.last_duration_sec = Null /\ row.last_done_at = Null
  /\ row.forced_completed = FALSE
  /\ row.notes_log = Append(notesBefore, SystemNote("Azzera ordine (reset completo)", 0))

C20_ResetZeroesOrder ==
  [][Settles({"resetOrder"}) =>
       /\ ResetState(doc', doc.notes_log)
       /\ ResetState(orders', orders.notes_log)
       /\ timers' = [present |-> TRUE, running |-> FALSE, startedAt |-> Null, elapsed |-> 0]]_vars

\* a reset order that had a stop recorded and a forced completion noted before
C20_Witness ==
  /\ Len(doc.notes_log) = 2
  /\ ResetState(doc, <<SystemNote("Forza conclusione", 2)>>)
  /\ Len(doc.ops_log) = 1
  /\ timers.present /\ ~timers.running /\ timers.elapsed = 0

\* C21: an order with requested quantity 0 is never set to eseguito by start,
\* pause, resume and stop, in the document or in the mirror, however many
\* pieces its stops record.
C21_ZeroRequestedNeverCompletes ==
  Num0(doc.qty_requested) = 0 => (doc.status # "eseguito" /\ orders.status # "eseguito")

\* two stops on an order with requested quantity 0 that finished two pieces
C21_Witness ==
  /\ doc.qty_requested = 0
  /\ Len(doc.ops_log) = 2
  /\ doc.qty_done >= 2
  /\ doc.status = "da_iniziare"

\* C22: on an order with steps_count 0 every accepted stop writes qty_done 0,
\* the batch list as it was and status da_iniziare, and adds the pieces to
\* steps_progress of the chosen step; the write reaches the document so.
C22_NoStepsNothingFinished ==
  [][/\ ((StopIssued /\ doc.steps_count = 0) =>
            LET patch == Issued.patch
            IN /\ patch.qty_done = 0
               /\ patch.batches = doc.batches
               /\ patch.status = "da_iniziare"
               /\ patch.last_pieces > 0
               /\ Get0(patch.steps_progress, patch.last_step) =
                    Get0(doc.steps_progress, patch.last_step) + patch.last_pieces)
     /\ ((StopSettles /\ doc.steps_count = 0) =>
            /\ doc'.qty_done = 0 /\ doc'.batches = doc.batches
            /\ doc'.status = "da_iniziare"
            /\ doc'.steps_progress = Head(pending).patch.steps_progress)]_vars

\* two pieces recorded on step 3 of an order without steps: nothing finished
C22_Witness ==
  /\ doc.steps_count = 0
  /\ Len(doc.ops_log) >= 1
  /\ Get0(doc.steps_progress, 3) = 2
  /\ doc.qty_done = 0 /\ doc.batches = <<>> /\ doc.status = "da_iniziare"

\* the virtual and the real batches the right-hand list shows for the order
ShownVirtual == {b \in batchesOnRight(orders) : b.id = VirtualId}
ShownReal == {b \in batchesOnRight(orders) : b.id # VirtualId}

\* C23: a hidden order shows no batch; a visible order shows one virtual
\* batch of qty = qty_done exactly when its batch list is empty and
\* qty_done > 0, and otherwise exactly the batches of its list; opening the
\* advance modal on a shown batch writes nothing to the document, the mirror
\* or the queue of writes.
C23_VirtualBatchShown ==
  /\ [](/\ (orders.hidden => batchesOnRight(orders) = {})
        /\ (~orders.hidden =>
              /\ (ShownVirtual # {} <=> (orders.batches = <<>> /\ Num0(orders.qty_done) > 0))
              /\ Cardinality(ShownVirtual) <= 1
              /\ \A b \in ShownVirtual : b.qty = orders.qty_done
              /\ ShownReal = {orders.batches[i] : i \in 1..Len(orders.batches)}
              /\ Cardinality(ShownReal) = Len(orders.batches)))
  /\ [][\A b \in batchesOnRight(orders) :
          openAdvanceForBatch(b) => UNCHANGED <<doc, orders, pending>>]_vars

\* the advance modal open on the virtual batch of a forced order without batches
C23_Witness ==
  /\ ~orders.hidden
  /\ orders.batches = <<>> /\ doc.batches = <<>>
  /\ orders.qty_done = 1
  /\ ShownVirtual = {VirtualBatch(orders)}
  /\ advanceOpen /\ advanceBatchId = VirtualId

\* C24: with the advance modal open on the virtual batch of an order without
\* batches and with qty_done > 0, saving a phase issues a write whose batch
\* list holds one batch of qty = qty_done in the chosen phase.
C24_AsClaimed ==
  (/\ advanceOpen /\ advanceBatchId = VirtualId /\ pending = <<>>
   /\ orders.batches = <<>> /\ Num0(orders.qty_done) > 0)
    => \A ph \in AdvancePhases :
         ENABLED (/\ saveAdvance(ph, Packing(1, Null, "", Null, ""))
                  /\ IssuedOp("saveAdvance")
                  /\ Len(Issued.patch.batches) = 1
                  /\ Issued.patch.batches[1].qty = orders.qty_done
                  /\ Issued.patch.batches[1].status = ph)

\* the fields of a batch that saveAdvance may change
BatchPhaseFields ==
  {"status", "status_changed_at", "packed_qty", "packed_boxes", "packed_size",
   "packed_weight", "packed_notes"}

\* batch b equals batch a outside the phase and packing fields
SameBatchBut(a, b) == \A f \in (DOMAIN a) \ BatchPhaseFields : b[f] = a[f]

\* C25: a saved advance changes, in the document and in the mirror, only the
\* batch list, and in it only the status, status_changed_at and packing of
\* the one batch the modal was opened on: the other batches, that batch's
\* id, qty and created_at, the order's status, qty_done, steps_progress,
\* steps_time and timer fields and the local timer stay as they were.
C25_AdvanceTouchesOneBatch ==
  [][Settles({"saveAdvance"}) =>
       /\ doc' = [doc EXCEPT !.batches = doc'.batches]
       /\ orders' = [orders EXCEPT !.batches = orders'.batches]
       /\ orders'.batches = doc'.batches
       /\ Len(doc'.batches) = Len(doc.batches)
       /\ \E i \in 1..Len(doc.batches) :
            /\ doc.batches[i].id = advanceBatchId
            /\ SameBatchBut(doc.batches[i], doc'.batches[i])
            /\ \A j \in (1..Len(doc.batches)) \ {i} : doc'.batches[j] = doc.batches[j]
       /\ UNCHANGED timers]_vars

\* two batches of one order in different phases
C25_Witness ==
  /\ Len(doc.batches) = 2
  /\ doc.batches[1].status = "pronti_consegna" /\ doc.batches[1].packed_qty = 2
  /\ doc.batches[2].status = "in_essiccazione"
  /\ doc.qty_done = 2 /\ doc.status = "da_iniziare"

\* every batch of the stored list is in the list after the step, with its id
\* and qty
BatchesKept ==
  \A i \in 1..Len(doc.batches) :
    \E j \in 1..Len(doc'.batches) :
      /\ doc'.batches[j].id = doc.batches[i].id
      /\ doc'.batches[j].qty = doc.batches[i].qty

C27_HideKeepsProduction ==
  [][/\ (Settles({"hideOrder"}) =>
            /\ doc' = [doc EXCEPT !.hidden = TRUE, !.deleted_at = now]
            /\ orders' = [orders EXCEPT !.hidden = TRUE, !.deleted_at = now])
     /\ (Settles({"restoreOrder"}) =>
            /\ doc' = [doc EXCEPT !.hidden = FALSE]
            /\ orders' = [orders EXCEPT !.hidden = FALSE])
     /\ (Settles({"deleteForever"}) =>
            LET notes == Append(doc.notes_log,
                                SystemNote("Eliminato definitivamente (soft-delete)", 0))
            IN /\ doc' = [doc EXCEPT !.hidden = TRUE, !.deleted_permanently = TRUE,
                                     !.deleted_at = now, !.notes_log = notes]
               /\ orders' = [orders EXCEPT !.hidden = TRUE, !.deleted_permanently = TRUE,
                                           !.deleted_at = now, !.notes_log = notes])
     /\ (Settles({"hideOrder", "restoreOrder", "deleteForever"}) => UNCHANGED timers)]_vars

\* an order hidden and restored, still in pronti_consegna with its batch
C27_Witness ==
  /\ ~doc.hidden /\ doc.deleted_at # Null /\ ~doc.deleted_permanently
  /\ doc.status = "pronti_consegna"
  /\ Len(doc.batches) = 1 /\ doc.qty_done = 1

\* the document after a write in flight has landed on d
Land(d, w) == StoreApply(d, w.patch, w.merge, now)

\* C28: a stop write of either client stores, for its step, the progress of
\* the row its modal was opened on plus its own pieces, whatever the document
\* held: of two stops on the same step built from the same snapshot the one
\* that lands last overwrites the pieces of the other.
C28_LastStopOverwrites ==
  [][/\ (IssuedOp("confirmStop") =>
            Get0(Issued.patch.steps_progress, Issued.patch.last_step) =
              Get0(stopTarget.steps_progress, Issued.patch.last_step) + Issued.patch.last_pieces)
     /\ (IssuedOp("peerConfirmStop") =>
            Get0(Issued.patch.steps_progress, Issued.patch.last_step) =
              Get0(peer.stopTarget.steps_progress, Issued.patch.last_step)
                + Issued.patch.last_pieces)
     /\ (Settles({"confirmStop", "peerConfirmStop"}) =>
            LET w == Head(pending)
            IN Get0(doc'.steps_progress, w.patch.last_step) =
                 Get0(w.patch.steps_progress, w.patch.last_step))]_vars

\* both clients recorded their first stop on step 1, 1 piece and 2 pieces, both
\* writes have settled, and the document holds 2 pieces on step 1
C28_Witness ==
  /\ pending = <<>>
  /\ Len(orders.ops_log) = 1 /\ orders.last_step = 1 /\ orders.last_pieces = 1
  /\ Len(peer.orders.ops_log) = 1 /\ peer.orders.last_step = 1
  /\ peer.orders.last_pieces = 2
  /\ Get0(doc.steps_progress, 1) = 2

\* C29: when the two clients have a stop in flight each, built from the same
\* snapshot on different steps, then after both writes have landed, in
\* either order, the document holds the first client's pieces on its step
\* and the second client's pieces on its step.
C29_AsClaimed ==
  (/\ Len(pending) = 2
   /\ pending[1].op = "confirmStop" /\ pending[2].op = "peerConfirmStop"
   /\ stopTarget = peer.stopTarget
   /\ pending[1].patch.last_step # pending[2].patch.last_step)
    => LET a == pending[1]
           b == pending[2]
           Both(d) ==
             /\ Get0(d.steps_progress, a.patch.last_step) =
                  Get0(stopTarget.steps_progress, a.patch.last_step) + a.patch.last_pieces
             /\ Get0(d.steps_progress, b.patch.last_step) =
                  Get0(stopTarget.steps_progress, b.patch.last_step) + b.patch.last_pieces
       IN Both(Land(Land(doc, a), b)) /\ Both(Land(Land(doc, b), a))

\* the handlers C30 names
FailOps == {"onStart", "onPause", "onResume", "confirmStop", "saveAdvance"}

LastStopFields == {"last_operator", "last_step", "last_pieces", "last_duration_sec",
                   "last_notes"}

BatchPhases == {"parziale", "in_essiccazione", "in_imballaggio", "pronti_consegna", "eseguito"}

\* the advance modal is open on a batch of the order's list
AdvanceIdx == FindBatch(orders.batches, advanceBatchId)

\* saveAdvance can write the modal's batch in phase ph, stamped with now
CanAdvanceTo(ph) ==
  ENABLED (/\ \E f \in PackingInputs : saveAdvance(ph, f)
           /\ IssuedOp("saveAdvance")
           /\ Issued.patch.batches[AdvanceIdx].status = ph
           /\ Issued.patch.batches[AdvanceIdx].status_changed_at = now)

\* C32 as stated: from every phase a batch is in, one saveAdvance can move it
\* to every other phase of partial, drying, packing, ready_for_delivery, done.
C32_AsClaimed ==
  (advanceOpen /\ AdvanceIdx # 0) =>
     \A ph \in BatchPhases \ {orders.batches[AdvanceIdx].status} : CanAdvanceTo(ph)

\* C32: from every phase a batch of the list is in, one saveAdvance can move
\* it to each of in_essiccazione, in_imballaggio and pronti_consegna, in any
\* order, subject only to the packed pieces for pronti_consegna; no saveAdvance
\* moves a batch to parziale or eseguito; every saveAdvance that writes stamps
\* the batch's status_changed_at with the time of the click.
C32_AdvanceToAnyOfferedPhase ==
  /\ []((advanceOpen /\ AdvanceIdx # 0) =>
          \A ph \in BatchPhases \ {"parziale", "eseguito"} : CanAdvanceTo(ph))
  /\ [][IssuedOp("saveAdvance") =>
          /\ Issued.patch.batches[AdvanceIdx].status \in BatchPhases \ {"parziale", "eseguito"}
          /\ Issued.patch.batches[AdvanceIdx].status_changed_at = now]_vars

\* a batch that is ready for delivery is being moved back to drying
C32_Witness ==
  /\ pending # <<>> /\ Head(pending).op = "saveAdvance"
  /\ doc.batches[1].status = "pronti_consegna"
  /\ Head(pending).patch.batches[1].status = "in_essiccazione"
  /\ Head(pending).patch.batches[1].status_changed_at = now

\* what the timer buttons leave alone
TimerFrame == {"steps_progress", "steps_time", "qty_done", "batches", "ops_log", "notes_log"}

\* the document after a write, but for the field total_elapsed_sec
WrittenBut(d, patch) ==
  [f \in (DOMAIN d) \ {"total_elapsed_sec"} |-> IF f \in DOMAIN patch THEN patch[f] ELSE d[f]]

\* C33: start and resume write timer_start = the time of the click and status
\* in_esecuzione and nothing else; pause writes elapsed_sec = the stored
\* elapsed_sec plus the rounded, non-negative running segment, timer_start
\* null and status pausato; when one of these writes settles every other
\* field of the document (steps_progress, steps_time, qty_done, batches and
\* the logs among them) is as before.
C33_TimerButtonsFrame ==
  [][/\ (IssuedOp("onStart") \/ IssuedOp("onResume")
            => Issued.patch = [status |-> "in_esecuzione", timer_start |-> now])
     /\ (IssuedOp("onPause")
            => /\ RunningSegment >= 0
               /\ Issued.patch.elapsed_sec = doc.elapsed_sec + RunningSegment
               /\ Issued.patch.timer_start = Null
               /\ Issued.patch.status = "pausato"
               /\ (DOMAIN Issued.patch) \cap TimerFrame = {})
     /\ (Settles({"onStart", "onPause", "onResume"})
            => /\ WrittenBut(doc', EmptyMap) = WrittenBut(doc, Head(pending).patch)
               /\ \A f \in TimerFrame : doc'[f] = doc[f])]_vars

\* an order with a recorded stop was started and paused two seconds later
C33_Witness ==
  /\ doc.status = "pausato" /\ doc.timer_start = Null
  /\ doc.elapsed_sec = 2
  /\ Len(doc.ops_log) = 1 /\ Len(doc.batches) = 1
  /\ doc.steps_progress[1] = 1

\* C34: in every state of the document the recorded progress of every step
\* 1..steps_count and qty_done are >= 0 (a negative pieces entry is rejected,
\* a negative force-complete quantity is not stored), and no write but a
\* reset lowers the recorded progress of a step.
C34_ProgressNeverNegative ==
  /\ [](/\ \A i \in 1..doc.steps_count : Get0(doc.steps_progress, i) >= 0
        /\ Num0(doc.qty_done) >= 0)
  /\ [][~Settles({"resetOrder"}) =>
          \A i \in 1..doc.steps_count :
             Get0(doc'.steps_progress, i) >= Get0(doc.steps_progress, i)]_vars

\* after a reset one piece was recorded on step 1 and the order was forced
\* to done
C34_Witness ==
  /\ Len(doc.notes_log) = 2
  /\ doc.notes_log[1].text = "Azzera ordine (reset completo)"
  /\ doc.forced_completed
  /\ Get0(doc.steps_progress, 1) = 1
  /\ doc.qty_done >= 1

\* C35 as stated: a reload leaves the document as it is, and a pause or a
\* stop, also one after a reload, stores the stored elapsed_sec plus the
\* running segment that began at the stored timer_start, less than a second
\* apart.
C35_AsClaimed ==
  [][/\ (reload => doc' = doc)
     /\ (IssuedOp("onPause") \/ IssuedOp("confirmStop")
            => LET ms == IF doc.timer_start # Null THEN now - doc.timer_start ELSE 0
                   due == 1000 * Num0(doc.elapsed_sec) + ms
               IN /\ 1000 * Issued.patch.elapsed_sec > due - 1000
                  /\ 1000 * Issued.patch.elapsed_sec < due + 1000)]_vars

\* C36 as stated: whatever writes are still in flight, onStart runs only when
\* the local timer is not running and the row's status is da_iniziare, onPause
\* only when the timer runs and the status is in_esecuzione, onResume only
\* when the timer is stopped and the status is pausato.
C36_AsClaimed ==
  [][/\ (IssuedOp("onStart") => ~timers.running /\ orders.status = "da_iniziare")
     /\ (IssuedOp("onPause") => timers.running /\ orders.status = "in_esecuzione")
     /\ (IssuedOp("onResume") => ~timers.running /\ orders.status = "pausato")]_vars

\* pieces on step 1, stops logged, batches, qty_done and pieces in batches
StopCounts(d) ==
  <<Get0(d.steps_progress, 1), Len(d.ops_log), Len(d.batches), Num0(d.qty_done),
    SumQty(d.batches)>>

\* C37: of the writes of one stop (Registra clicked again while the first
\* write is in flight, or again after a rejected write) the first that
\* reaches the store adds the pieces once, one log entry and one batch for
\* the rise of qty_done; every later one leaves those counts as they are; a
\* rejected one changes nothing.
C37_ResubmittedStopCountsOnce ==
  [][/\ ((WriteDone /\ Head(pending).op = "confirmStop") =>
           IF stopOpen
           THEN /\ StopCounts(stopTarget) = StopCounts(doc)
                /\ StopCounts(doc') = [i \in 1..5 |-> StopCounts(doc)[i] + 1]
           ELSE StopCounts(doc') = StopCounts(doc))
     /\ (WriteFails => doc' = doc)]_vars

\* both writes of a stop clicked twice have reached the store: the batch is
\* the one of the second write, and it is the only one
C37_Witness ==
  /\ pending = <<>> /\ idSeq = 2
  /\ StopCounts(doc) = <<1, 1, 1, 1, 1>>
  /\ doc.batches[1].id = 2

\* the fields C38 names
MirroredFields ==
  {"status", "qty_done", "steps_progress", "steps_time", "elapsed_sec", "timer_start",
   "batches", "packed_qty", "packed_boxes", "packed_size", "packed_weight", "packed_notes"}

\* C38 as stated: whenever no store write is in flight, the mirror row and
\* the document agree on status, qty_done, steps_progress, steps_time,
\* elapsed_sec, timer_start, batches and the packing fields.
C38_AsClaimed ==
  pending = <<>> => \A f \in MirroredFields : orders[f] = doc[f]

\* C39 as stated: with two clients recording stops, once every write has
\* landed the document's qty_done is the least recorded progress of steps
\* 1..steps_count and its batches sum to qty_done.
C39_AsClaimed ==
  pending = <<>> =>
    /\ Num0(doc.qty_done) = computeFullyDone(doc.steps_count, doc.steps_progress, 0)
    /\ SumQty(doc.batches) = Num0(doc.qty_done)

\* the seconds recorded on the steps of a row, all steps together
RECURSIVE SumOver(_, _)
SumOver(f, S) ==
  IF S = {} THEN 0
  ELSE LET x == CHOOSE y \in S : TRUE IN f[x] + SumOver(f, S \ {x})
StepSeconds(row) == SumOver(row.steps_time, DOMAIN row.steps_time)

\* C40: in every state of the document the seconds recorded on the steps,
\* all together, are at most total_elapsed_sec. A stop adds the same seconds,
\* the running segment, to its step and to the total (so the two stay equal
\* as long as only stops end the running segments), and adds 0 to its step
\* when the timer is not running; a pause adds its segment to the total only;
\* start and resume add to neither.
C40_StepSecondsWithinTotal ==
  /\ [](StepSeconds(doc) <= doc.total_elapsed_sec)
  /\ [][/\ (IssuedOp("confirmStop") =>
             LET p == Issued.patch
             IN /\ StepSeconds(p) - StepSeconds(doc) = p.last_duration_sec
                /\ p.total_elapsed_sec - doc.total_elapsed_sec = p.last_duration_sec
                /\ Get0(p.steps_time, p.last_step)
                     = Get0(doc.steps_time, p.last_step) + p.last_duration_sec
                /\ p.last_duration_sec = RunningSegment
                /\ (~timers.running => p.last_duration_sec = 0))
        /\ (IssuedOp("onPause") =>
             /\ "steps_time" \notin DOMAIN Issued.patch
             /\ Issued.patch.total_elapsed_sec = doc.total_elapsed_sec + RunningSegment)
        /\ (IssuedOp("onStart") \/ IssuedOp("onResume") =>
             (DOMAIN Issued.patch) \cap {"steps_time", "total_elapsed_sec"} = {})]_vars

\* two stops on two steps, the first after a running second, and a pause
\* that put a second on the total only
C40_Witness ==
  /\ Len(doc.ops_log) = 2
  /\ DOMAIN doc.steps_time = {1, 2}
  /\ doc.steps_time[1] = 1
  /\ StepSeconds(doc) < doc.total_elapsed_sec

====
